---- MODULE Spec2Model ----
(***************************************************************************)
(* Model of examples-rust/form-src/basic-projects/check_terrapin.rs: one   *)
(* scan of an SSH peer for the Terrapin prefix-truncation weakness.        *)
(*                                                                         *)
(* Bytes are integers 0..255 and every text (algorithm names, banner       *)
(* lines) is the sequence of its bytes, so that splitting on ',', suffix   *)
(* and prefix tests, trimming and slicing are computed as the code         *)
(* computes them.  Rust indices are 0-based, TLA+ sequences are 1-based:   *)
(* payload[i] of the source is payload[i + 1] here.  usize is 64 bits wide;*)
(* no sum formed below can reach 2^64 (a u32 plus at most 35000 + 4), so   *)
(* the only width that matters is the u32 of the length fields and the     *)
(* usize subtraction of line 157, which is modelled with its panic.        *)
(* TLC's integers end at 2^31 - 1, so the length fields of the inputs keep *)
(* their first byte below 128.                                             *)
(***************************************************************************)
EXTENDS Integers, Sequences, FiniteSets, TLC

\* ------------------------------------------------------------------------
\* Program constants (check_terrapin.rs:16-20, 146, 171, 177, 276)
\* ------------------------------------------------------------------------

\* "chacha20-poly1305@openssh.com"
CHACHA20_POLY1305 ==
    <<99, 104, 97, 99, 104, 97, 50, 48, 45, 112, 111, 108, 121, 49, 51, 48, 53, 64, 111, 112, 101, 110, 115, 115, 104, 46, 99, 111, 109>>
\* "-etm@openssh.com"
ETM_SUFFIX ==
    <<45, 101, 116, 109, 64, 111, 112, 101, 110, 115, 115, 104, 46, 99, 111, 109>>
\* "-cbc"
CBC_SUFFIX ==
    <<45, 99, 98, 99>>
\* "kex-strict-c-v00@openssh.com"
KEX_STRICT_INDICATOR_CLIENT ==
    <<107, 101, 120, 45, 115, 116, 114, 105, 99, 116, 45, 99, 45, 118, 48, 48, 64, 111, 112, 101, 110, 115, 115, 104, 46, 99, 111, 109>>
\* "kex-strict-s-v00@openssh.com"
KEX_STRICT_INDICATOR_SERVER ==
    <<107, 101, 120, 45, 115, 116, 114, 105, 99, 116, 45, 115, 45, 118, 48, 48, 64, 111, 112, 101, 110, 115, 115, 104, 46, 99, 111, 109>>
\* "SSH-2.0-TerrapinVulnerabilityScanner\r\n"
OWN_BANNER ==
    <<83, 83, 72, 45, 50, 46, 48, 45, 84, 101, 114, 114, 97, 112, 105, 110, 86, 117, 108, 110, 101, 114, 97, 98, 105, 108, 105, 116, 121, 83, 99, 97, 110, 110, 101, 114, 13, 10>>
\* "SSH-1.99"
PREFIX_SSH_1_99 ==
    <<83, 83, 72, 45, 49, 46, 57, 57>>
\* "SSH-2.0"
PREFIX_SSH_2_0 ==
    <<83, 83, 72, 45, 50, 46, 48>>

\* the ceiling on the declared packet length
MAX_PACKET_LENGTH == 35000
\* the message type of SSH_MSG_KEXINIT
SSH_MSG_KEXINIT == 20
\* ',' and '\n'
COMMA == 44
NEWLINE == 10
\* length of the KEXINIT cookie
COOKIE_LEN == 16
\* number of name-lists of a KEXINIT
NAME_LISTS == 10

\* ------------------------------------------------------------------------
\* Byte-string helpers (the std functions the code calls)
\* ------------------------------------------------------------------------

Min(a, b) == IF a < b THEN a ELSE b

\* u32::from_be_bytes
u32_from_be_bytes(b) ==
    ((b[1] * 256 + b[2]) * 256 + b[3]) * 256 + b[4]

\* u32::to_be_bytes, used by the peer to encode length fields
u32_to_be_bytes(n) ==
    << (n \div 16777216) % 256, (n \div 65536) % 256, (n \div 256) % 256, n % 256 >>

\* str::starts_with
starts_with(s, prefix) ==
    /\ Len(s) >= Len(prefix)
    /\ SubSeq(s, 1, Len(prefix)) = prefix

\* str::ends_with
ends_with(s, suffix) ==
    /\ Len(s) >= Len(suffix)
    /\ SubSeq(s, Len(s) - Len(suffix) + 1, Len(s)) = suffix

\* Vec<String>::contains
contains(list, s) == \E i \in 1..Len(list) : list[i] = s

\* Iterator::any(|alg| alg.ends_with(suffix))
any_ends_with(list, suffix) == \E i \in 1..Len(list) : ends_with(list[i], suffix)

\* the ASCII members of the White_Space property that str::trim strips
WHITESPACE == {9, 10, 11, 12, 13, 32}

RECURSIVE trim_start(_)
trim_start(s) ==
    IF s # <<>> /\ s[1] \in WHITESPACE THEN trim_start(Tail(s)) ELSE s

RECURSIVE trim_end(_)
trim_end(s) ==
    IF s # <<>> /\ s[Len(s)] \in WHITESPACE
    THEN trim_end(SubSeq(s, 1, Len(s) - 1)) ELSE s

\* str::trim
trim(s) == trim_end(trim_start(s))

\* str::split(','): the tokens between separators, in order; a text with n
\* separators gives n + 1 tokens, so an empty text gives one empty token
split_mut(s) ==
    LET commas == { i \in 1..Len(s) : s[i] = COMMA }
        n      == Cardinality(commas)
        at(k)  == IF k = 0 THEN 0
                  ELSE IF k = n + 1 THEN Len(s) + 1
                  ELSE CHOOSE i \in commas :
                           Cardinality({ j \in commas : j < i }) = k - 1
    IN  IF s = <<>> THEN <<>>
        ELSE [k \in 1..(n + 1) |-> SubSeq(s, at(k - 1) + 1, at(k) - 1)]

split(s) ==
    LET commas == { i \in 1..Len(s) : s[i] = COMMA }
        n      == Cardinality(commas)
        \* position of the k-th separator; 0 and Len(s) + 1 bracket the text
        at(k)  == IF k = 0 THEN 0
                  ELSE IF k = n + 1 THEN Len(s) + 1
                  ELSE CHOOSE i \in commas :
                           Cardinality({ j \in commas : j < i }) = k - 1
    IN  [k \in 1..(n + 1) |-> SubSeq(s, at(k - 1) + 1, at(k) - 1)]

\* String::from_utf8 succeeds: the well-formed byte sequences of UTF-8
\* (Unicode 15, table 3-7).  utf8_width is the length of the sequence a
\* leading byte starts, 0 for a byte that starts none.
utf8_width(b) ==
    IF b < 128 THEN 1
    ELSE IF b >= 194 /\ b <= 223 THEN 2
    ELSE IF b >= 224 /\ b <= 239 THEN 3
    ELSE IF b >= 240 /\ b <= 244 THEN 4
    ELSE 0

utf8_continuation(b) == b >= 128 /\ b <= 191

\* the range of the byte that follows leading byte b
utf8_second_ok(b, c) ==
    /\ c >= (IF b = 224 THEN 160 ELSE IF b = 240 THEN 144 ELSE 128)
    /\ c <= (IF b = 237 THEN 159 ELSE IF b = 244 THEN 143 ELSE 191)

from_utf8_ok(s) ==
    \A i \in 1..Len(s) :
        IF utf8_continuation(s[i])
        THEN \* a continuation byte belongs to a leading byte before it
             \E d \in 1..3 :
                /\ i - d >= 1
                /\ utf8_width(s[i - d]) > d
                /\ \A j \in (i - d + 1)..(i - 1) : utf8_continuation(s[j])
        ELSE \* a leading byte is followed by its continuation bytes
             /\ utf8_width(s[i]) > 0
             /\ i + utf8_width(s[i]) - 1 <= Len(s)
             /\ \A j \in (i + 1)..(i + utf8_width(s[i]) - 1) :
                    utf8_continuation(s[j])
             /\ utf8_width(s[i]) > 1 => utf8_second_ok(s[i], s[i + 1])

\* ------------------------------------------------------------------------
\* State
\* ------------------------------------------------------------------------

VARIABLES
    scan_mode,        \* ScanMode of this scan: "ServerScan" or "ClientScan"
    peer,             \* what the peer sends: lines, packets, raw tail, filler
    conn,             \* how the connection was made: "none", "outbound", "accepted"
    cursor,           \* bytes of the peer's stream consumed through the BufReader
    sent,             \* bytes this tool has written to the peer
    pc,               \* position of scan_with_timeout / main
    remote_banner,    \* result of exchange_banners
    nread,            \* number of packets read_single_packet has returned
    pkt,              \* the BinaryPacket last returned by read_single_packet
    remote_kex_init,  \* the SshMsgKexInit returned by receive_remote_kex_init
    report,           \* the Report returned by scan_with_timeout
    output,           \* the record main serializes
    err,              \* the io::Error or the panic that ended the scan
    nl                \* a call of parse_name_list on its own: the names the
                      \* peer encoded, the payload, the offset and the result

vars == << scan_mode, peer, conn, cursor, sent, pc, remote_banner, nread, pkt,
           remote_kex_init, report, output, err, nl >>

\* ------------------------------------------------------------------------
\* The peer's byte stream
\* ------------------------------------------------------------------------

RECURSIVE Flatten(_)
Flatten(ss) == IF ss = <<>> THEN <<>> ELSE Head(ss) \o Flatten(Tail(ss))

\* The peer's side of the binary packet protocol: length, padding length,
\* payload, padding.
encode_packet(f) ==
    u32_to_be_bytes(1 + Len(f.payload) + Len(f.padding))
        \o << Len(f.padding) >> \o f.payload \o f.padding

RECURSIVE encode_packets(_)
encode_packets(fs) ==
    IF fs = <<>> THEN <<>> ELSE encode_packet(Head(fs)) \o encode_packets(Tail(fs))

\* The bytes the peer sends before it closes the connection: its lines, its
\* well-formed packets, then arbitrary bytes, then peer.fill bytes of value 0.
StreamData(p) == Flatten(p.lines) \o encode_packets(p.frames) \o p.tail

StreamLen(p) == Len(StreamData(p)) + p.fill

\* byte i (0-based) of the stream
StreamAt(p, i) ==
    LET d == StreamData(p) IN IF i < Len(d) THEN d[i + 1] ELSE 0

\* the n bytes from position cur on
StreamBytes(p, cur, n) ==
    LET d == StreamData(p)
    IN  [i \in 1..n |-> IF cur + i <= Len(d) THEN d[cur + i] ELSE 0]

\* ------------------------------------------------------------------------
\* Results of the fallible functions: Ok(value), Err(io::Error), or a panic
\* ------------------------------------------------------------------------

Ok(v, cur) == [status |-> "Ok", kind |-> "", msg |-> "", value |-> v, cursor |-> cur]

Err(k, m, v, cur) ==
    [status |-> "Err", kind |-> k, msg |-> m, value |-> v, cursor |-> cur]

Panic(m, v, cur) ==
    [status |-> "Panic", kind |-> "panic", msg |-> m, value |-> v, cursor |-> cur]

NoError == [status |-> "Ok", kind |-> "", msg |-> ""]

ErrorOf(r) == [status |-> r.status, kind |-> r.kind, msg |-> r.msg]

\* ------------------------------------------------------------------------
\* read_single_packet (lines 141-167)
\* ------------------------------------------------------------------------

NoPacket ==
    [packet_length |-> 0, padding_length |-> 0, payload |-> <<>>,
     padding |-> <<>>, mac |-> <<>>]

\* line 146: if packet_length > 35000
packet_too_large_mut(packet_length) == packet_length >= MAX_PACKET_LENGTH

packet_too_large(packet_length) == packet_length > MAX_PACKET_LENGTH

\* line 153: vec![0u8; packet_length as usize], the size of the body read
body_size_mut(packet_length) == packet_length + 4

body_size(packet_length) == packet_length

\* line 157: pkt_bytes[1..(packet_length - padding_length)]
payload_slice_mut(pkt_bytes, packet_length, padding_length) ==
    SubSeq(pkt_bytes, 1, packet_length - padding_length)

payload_slice(pkt_bytes, packet_length, padding_length) ==
    SubSeq(pkt_bytes, 2, packet_length - padding_length)

\* line 158: pkt_bytes[(packet_length - padding_length)..]
padding_slice(pkt_bytes, packet_length, padding_length) ==
    SubSeq(pkt_bytes, packet_length - padding_length + 1, Len(pkt_bytes))

read_single_packet(p, cur) ==
    IF cur + 4 > StreamLen(p)
    THEN Err("UnexpectedEof", "failed to fill whole buffer", NoPacket, StreamLen(p))
    ELSE
    LET packet_length == u32_from_be_bytes(StreamBytes(p, cur, 4)) IN
    IF packet_too_large(packet_length)
    THEN Err("InvalidData", "packet length is larger than 35000 bytes",
             NoPacket, cur + 4)
    ELSE
    LET size == body_size(packet_length) IN
    IF cur + 4 + size > StreamLen(p)
    THEN Err("UnexpectedEof", "failed to fill whole buffer", NoPacket, StreamLen(p))
    ELSE
    LET pkt_bytes == StreamBytes(p, cur + 4, size)
        after     == cur + 4 + size
    IN
    IF Len(pkt_bytes) = 0
    THEN Panic("index out of bounds: the len is 0 but the index is 0",
               NoPacket, after)
    ELSE
    LET padding_length == pkt_bytes[1] IN
    IF padding_length > packet_length
    THEN \* debug build: the usize subtraction overflows; release build: it
         \* wraps and the slice end is out of range.  Both panic.
         Panic("attempt to subtract with overflow", NoPacket, after)
    ELSE IF packet_length - padding_length < 1
    THEN Panic("slice index starts at 1 but ends at 0", NoPacket, after)
    ELSE IF packet_length - padding_length > Len(pkt_bytes)
    THEN Panic("range end index out of range for slice", NoPacket, after)
    ELSE Ok([packet_length  |-> packet_length,
             padding_length |-> padding_length,
             payload |-> payload_slice(pkt_bytes, packet_length, padding_length),
             padding |-> padding_slice(pkt_bytes, packet_length, padding_length),
             mac     |-> <<>>],
            after)

\* ------------------------------------------------------------------------
\* parse_name_list (lines 183-212)
\* ------------------------------------------------------------------------

\* line 197: if pkt.payload.len() < offset + 4 + length
name_list_truncated_mut(payload, offset, length) ==
    Len(payload) < offset + length

name_list_truncated(payload, offset, length) ==
    Len(payload) < offset + 4 + length

\* line 204: &pkt.payload[offset + 4..offset + 4 + length]
name_list_bytes_mut(payload, offset, length) ==
    SubSeq(payload, offset + 1, offset + length)

name_list_bytes(payload, offset, length) ==
    SubSeq(payload, offset + 5, offset + 4 + length)

\* value: << name_list, consumed >>
parse_name_list(payload, offset) ==
    IF Len(payload) < offset + 4
    THEN Err("UnexpectedEof", "not enough bytes to read name list length",
             << <<>>, 0 >>, 0)
    ELSE
    LET length == u32_from_be_bytes(SubSeq(payload, offset + 1, offset + 4)) IN
    IF name_list_truncated(payload, offset, length)
    THEN Err("UnexpectedEof", "not enough bytes to read name list",
             << <<>>, 0 >>, 0)
    ELSE IF offset + 4 + length > Len(payload)
    THEN \* the slice of line 204 checks its own range
         Panic("range end index out of range for slice", << <<>>, 0 >>, 0)
    ELSE
    LET bytes == name_list_bytes(payload, offset, length) IN
    IF ~from_utf8_ok(bytes)
    THEN Panic("called Result::unwrap() on an Err value: FromUtf8Error",
               << <<>>, 0 >>, 0)
    ELSE Ok(<< split(bytes), 4 + length >>, 0)

\* ------------------------------------------------------------------------
\* parse_kex_init (lines 214-271)
\* ------------------------------------------------------------------------

NoKexInit ==
    [msg_type |-> 0, cookie |-> <<>>, lists |-> <<>>,
     first_kex_packet_follows |-> FALSE, flags |-> 0]

\* The ten name-lists of an SshMsgKexInit, in the order of lines 224-243
kex_algorithms(k)                           == k.lists[1]
server_host_key_algorithms(k)               == k.lists[2]
encryption_algorithms_client_to_server(k)   == k.lists[3]
encryption_algorithms_server_to_client(k)   == k.lists[4]
mac_algorithms_client_to_server(k)          == k.lists[5]
mac_algorithms_server_to_client(k)          == k.lists[6]
compression_algorithms_client_to_server(k)  == k.lists[7]
compression_algorithms_server_to_client(k)  == k.lists[8]
languages_client_to_server(k)               == k.lists[9]
languages_server_to_client(k)               == k.lists[10]

\* lines 224-243: parse_name_list_at(offset)?; offset += len; for the
\* name-lists n..10.  value: << lists, offset >>
RECURSIVE parse_name_lists(_, _, _, _)
parse_name_lists(payload, offset, n, lists) ==
    IF n > NAME_LISTS THEN Ok(<< lists, offset >>, 0)
    ELSE LET r == parse_name_list(payload, offset)
         IN  IF r.status # "Ok"
             THEN [r EXCEPT !.value = << lists, offset >>]
             ELSE parse_name_lists(payload, offset + r.value[2], n + 1,
                                   Append(lists, r.value[1]))

parse_kex_init(payload) ==
    IF Len(payload) < 1
    THEN Panic("index out of bounds: the len is 0 but the index is 0", NoKexInit, 0)
    ELSE IF Len(payload) < 1 + COOKIE_LEN
    THEN Panic("range end index 17 out of range for slice", NoKexInit, 0)
    ELSE
    LET msg_type == payload[1]
        cookie   == SubSeq(payload, 2, 1 + COOKIE_LEN)
        r        == parse_name_lists(payload, 1 + COOKIE_LEN, 1, <<>>)
    IN
    IF r.status # "Ok" THEN [r EXCEPT !.value = NoKexInit]
    ELSE
    LET offset == r.value[2] IN
    IF offset + 1 > Len(payload)
    THEN Panic("index out of bounds", NoKexInit, 0)
    ELSE IF offset + 1 + 4 > Len(payload)
    THEN Panic("index out of bounds", NoKexInit, 0)
    ELSE Ok([msg_type |-> msg_type,
             cookie   |-> cookie,
             lists    |-> r.value[1],
             first_kex_packet_follows |-> payload[offset + 1] # 0,
             flags    |-> u32_from_be_bytes(SubSeq(payload, offset + 2, offset + 5))],
            0)

\* ------------------------------------------------------------------------
\* The evaluation of scan_with_timeout (lines 73-111) and Report (22-45)
\* ------------------------------------------------------------------------

\* lines 73-78
supports_chacha20_mut(k) ==
    contains(encryption_algorithms_client_to_server(k), CHACHA20_POLY1305)

supports_chacha20(k) ==
    \/ contains(encryption_algorithms_client_to_server(k), CHACHA20_POLY1305)
    \/ contains(encryption_algorithms_server_to_client(k), CHACHA20_POLY1305)

\* lines 79-94
supports_cbc_etm_mut(k) ==
    /\ \/ any_ends_with(encryption_algorithms_client_to_server(k), CBC_SUFFIX)
       \/ any_ends_with(encryption_algorithms_server_to_client(k), CBC_SUFFIX)
    /\ \/ any_ends_with(mac_algorithms_client_to_server(k), ETM_SUFFIX)
       \/ any_ends_with(mac_algorithms_server_to_client(k), ETM_SUFFIX)

supports_cbc_etm(k) ==
    \/ /\ any_ends_with(encryption_algorithms_client_to_server(k), CBC_SUFFIX)
       /\ any_ends_with(mac_algorithms_client_to_server(k), ETM_SUFFIX)
    \/ /\ any_ends_with(encryption_algorithms_server_to_client(k), CBC_SUFFIX)
       /\ any_ends_with(mac_algorithms_server_to_client(k), ETM_SUFFIX)

\* lines 95-101
supports_strict_kex_mut(k, mode) ==
    \/ contains(kex_algorithms(k), KEX_STRICT_INDICATOR_CLIENT)
    \/ /\ mode = "ClientScan"
       /\ contains(kex_algorithms(k), KEX_STRICT_INDICATOR_SERVER)

supports_strict_kex(k, mode) ==
    \/ contains(kex_algorithms(k), KEX_STRICT_INDICATOR_SERVER)
    \/ /\ mode = "ClientScan"
       /\ contains(kex_algorithms(k), KEX_STRICT_INDICATOR_CLIENT)

\* line 105
is_server_mut(mode) == mode = "ClientScan"

is_server(mode) == mode = "ServerScan"

NoReport ==
    [remote_addr |-> "", is_server |-> FALSE, banner |-> <<>>,
     supports_chacha20 |-> FALSE, supports_cbc_etm |-> FALSE,
     supports_strict_kex |-> FALSE, vulnerable |-> FALSE]

\* the address main passes to scan (line 284)
ADDRESS == "127.0.0.1:22"

\* lines 103-111: the Report scan_with_timeout returns
make_report(mode, banner, k) ==
    [remote_addr         |-> ADDRESS,
     is_server           |-> is_server(mode),
     banner              |-> banner,
     supports_chacha20   |-> supports_chacha20(k),
     supports_cbc_etm    |-> supports_cbc_etm(k),
     supports_strict_kex |-> supports_strict_kex(k, mode),
     vulnerable          |-> FALSE]

\* Report::is_vulnerable (lines 41-45)
is_vulnerable_mut(r) == r.vulnerable

is_vulnerable(r) ==
    (r.supports_chacha20 \/ r.supports_cbc_etm) /\ ~r.supports_strict_kex

\* serialize_is_vulnerable (lines 34-39): the value written for "vulnerable"
serialize_is_vulnerable(r) == is_vulnerable(r)

\* #[derive(Serialize)] of Report (lines 22-32) as main uses it (line 289)
serialize(r) ==
    [remote_addr         |-> r.remote_addr,
     is_server           |-> r.is_server,
     banner              |-> r.banner,
     supports_chacha20   |-> r.supports_chacha20,
     supports_cbc_etm    |-> r.supports_cbc_etm,
     supports_strict_kex |-> r.supports_strict_kex,
     vulnerable          |-> serialize_is_vulnerable(r)]

\* ------------------------------------------------------------------------
\* The peer's encoders (RFC 4253 name-list and SSH_MSG_KEXINIT), the inverse
\* of parse_name_list and parse_kex_init
\* ------------------------------------------------------------------------

RECURSIVE join(_)
join(list) ==
    IF list = <<>> THEN <<>>
    ELSE IF Len(list) = 1 THEN list[1]
    ELSE list[1] \o << COMMA >> \o join(Tail(list))

encode_name_list(list) == u32_to_be_bytes(Len(join(list))) \o join(list)

RECURSIVE encode_name_lists(_)
encode_name_lists(lists) ==
    IF lists = <<>> THEN <<>>
    ELSE encode_name_list(Head(lists)) \o encode_name_lists(Tail(lists))

encode_kex_init(cookie, lists, follows, flags) ==
    << SSH_MSG_KEXINIT >> \o cookie \o encode_name_lists(lists)
        \o << follows >> \o u32_to_be_bytes(flags)

\* ------------------------------------------------------------------------
\* Bounds of the inputs
\* ------------------------------------------------------------------------

\* most packets the peer sends before its KEXINIT
MaxSkip == 2
\* longest payload and padding of the enumerated packets
MaxPayloadLen == 2
MaxPadLen == 2

\* ------------------------------------------------------------------------
\* Inputs: what the peer sends
\* ------------------------------------------------------------------------

\* "curve25519-sha256"
TokCurve ==
    <<99, 117, 114, 118, 101, 50, 53, 53, 49, 57, 45, 115, 104, 97, 50, 53, 54>>
\* "aes128-cbc"
TokAesCbc ==
    <<97, 101, 115, 49, 50, 56, 45, 99, 98, 99>>
\* "aes256-gcm@openssh.com"
TokAesGcm ==
    <<97, 101, 115, 50, 53, 54, 45, 103, 99, 109, 64, 111, 112, 101, 110, 115, 115, 104, 46, 99, 111, 109>>
\* "hmac-sha2-256-etm@openssh.com"
TokHmacEtm ==
    <<104, 109, 97, 99, 45, 115, 104, 97, 50, 45, 50, 53, 54, 45, 101, 116, 109, 64, 111, 112, 101, 110, 115, 115, 104, 46, 99, 111, 109>>
\* "hmac-sha2-256"
TokHmac ==
    <<104, 109, 97, 99, 45, 115, 104, 97, 50, 45, 50, 53, 54>>
\* "chacha20-poly1305@openssh.com.bak"
TokChachaLonger ==
    <<99, 104, 97, 99, 104, 97, 50, 48, 45, 112, 111, 108, 121, 49, 51, 48, 53, 64, 111, 112, 101, 110, 115, 115, 104, 46, 99, 111, 109, 46, 98, 97, 107>>
\* "chacha20-poly1305"
TokChachaShorter ==
    <<99, 104, 97, 99, 104, 97, 50, 48, 45, 112, 111, 108, 121, 49, 51, 48, 53>>
\* "aes128-cbc@x"
TokCbcInside ==
    <<97, 101, 115, 49, 50, 56, 45, 99, 98, 99, 64, 120>>
\* "none"
TokNone ==
    <<110, 111, 110, 101>>
\* "ssh-ed25519"
TokHostKey ==
    <<115, 115, 104, 45, 101, 100, 50, 53, 53, 49, 57>>
\* "SSH-2.0-OpenSSH_9.0\r\n"
LineBanner20 ==
    <<83, 83, 72, 45, 50, 46, 48, 45, 79, 112, 101, 110, 83, 83, 72, 95, 57, 46, 48, 13, 10>>
\* "SSH-1.99-x \n"
LineBanner199 ==
    <<83, 83, 72, 45, 49, 46, 57, 57, 45, 120, 32, 10>>
\* "hi\r\n"
LineComment ==
    <<104, 105, 13, 10>>
\* "SSH-2.0-late\r\n"
LineLate ==
    <<83, 83, 72, 45, 50, 46, 48, 45, 108, 97, 116, 101, 13, 10>>
\* "SSH-2.0-x", a last line the peer never terminates
LineOpen ==
    <<83, 83, 72, 45, 50, 46, 48, 45, 120>>
\* a line that is not UTF-8
LineNotUtf8 ==
    <<104, 255, 13, 10>>

Cookie == [i \in 1..COOKIE_LEN |-> i]

Modes == {"ServerScan", "ClientScan"}

\* what a peer puts into a KEXINIT it encodes itself
Offer(cookie, lists, follows, flags) ==
    [cookie |-> cookie, lists |-> lists, follows |-> follows, flags |-> flags]

NoOffer == Offer(<<>>, <<>>, 0, 0)

Peer(lines, frames, tail, fill) ==
    [lines |-> lines, frames |-> frames, tail |-> tail, fill |-> fill,
     offer |-> NoOffer]

Frame(payload, padding) == [payload |-> payload, padding |-> padding]

Zeros(n) == [i \in 1..n |-> 0]

\* all sequences over S of length at most n
RECURSIVE SeqsUpTo(_, _)
SeqsUpTo(S, n) ==
    IF n = 0 THEN { <<>> }
    ELSE LET shorter == SeqsUpTo(S, n - 1)
         IN  shorter \cup { Append(s, x) : s \in shorter, x \in S }

\* -- KEXINIT packets whose name-lists exercise the evaluation ----------------

KexChoices ==
    { << TokCurve >>,
      << TokCurve, KEX_STRICT_INDICATOR_SERVER >>,
      << KEX_STRICT_INDICATOR_CLIENT, TokCurve >>,
      << KEX_STRICT_INDICATOR_CLIENT, KEX_STRICT_INDICATOR_SERVER >> }

EncChoices ==
    { << TokAesGcm >>,
      << TokAesGcm, CHACHA20_POLY1305 >>,
      << TokAesCbc, TokAesGcm >>,
      << TokChachaLonger, TokChachaShorter, TokCbcInside >> }

MacChoices ==
    { << TokHmac >>,
      << TokHmac, TokHmacEtm >>,
      << CHACHA20_POLY1305, TokAesCbc >> }

\* The lists the evaluation does not read carry every name it looks for.
Decoys ==
    << TokHostKey, CHACHA20_POLY1305, TokAesCbc, TokHmacEtm,
       KEX_STRICT_INDICATOR_SERVER, KEX_STRICT_INDICATOR_CLIENT >>

OfferLists(kex, enc_cs, enc_sc, mac_cs, mac_sc) ==
    << kex, Decoys, enc_cs, enc_sc, mac_cs, mac_sc,
       Decoys, << TokNone >>, <<>>, Decoys >>

KexInitPayload(kex, enc_cs, enc_sc, mac_cs, mac_sc) ==
    encode_kex_init(Cookie, OfferLists(kex, enc_cs, enc_sc, mac_cs, mac_sc), 0, 0)

\* a peer that sends its lines, the packets `skipped`, then the KEXINIT it
\* encodes from `offer`
OfferPeer(lines, skipped, offer) ==
    [lines  |-> lines,
     frames |-> skipped \o
                << Frame(encode_kex_init(offer.cookie, offer.lists,
                                         offer.follows, offer.flags),
                         Zeros(4)) >>,
     tail   |-> <<>>,
     fill   |-> 0,
     offer  |-> offer]

EvaluationPeers ==
    { OfferPeer(<< LineBanner20 >>, <<>>,
                Offer(Cookie, OfferLists(kex, ec, es, mc, ms), 0, 0)) :
        kex \in KexChoices, ec \in EncChoices, es \in EncChoices,
        mc \in MacChoices, ms \in MacChoices }

\* -- banner lines and packets before the KEXINIT ---------------------------

PlainLists ==
    OfferLists(<< TokCurve >>, << CHACHA20_POLY1305 >>, << TokAesGcm >>,
               << TokHmac >>, << TokHmac >>)

PlainOffer == Offer(Cookie, PlainLists, 0, 0)

PlainKexInit == encode_kex_init(Cookie, PlainLists, 0, 0)

LineChoices ==
    { << LineBanner20 >>, << LineComment, LineBanner199 >>,
      << LineComment, LineComment, LineBanner20 >> }

\* packets that are not a KEXINIT: SSH_MSG_IGNORE, SSH_MSG_DEBUG, an empty
\* payload
SkipFrames ==
    { Frame(<< 2, 0, 0, 0, 0 >>, Zeros(4)), Frame(<< 4, 20 >>, << 20 >>),
      Frame(<<>>, Zeros(4)) }

SkipPeers ==
    { Peer(lines, skipped, <<>>, 0) :
        lines \in LineChoices, skipped \in SeqsUpTo(SkipFrames, MaxSkip) }
    \cup
    { OfferPeer(lines, skipped, PlainOffer) :
        lines \in LineChoices, skipped \in SeqsUpTo(SkipFrames, MaxSkip) }

\* -- single packets of every small payload and padding ----------------------

PacketPeers ==
    { Peer(<< LineBanner20 >>, << Frame(payload, padding) >>, tail, 0) :
        payload \in SeqsUpTo({0, SSH_MSG_KEXINIT, 255}, MaxPayloadLen),
        padding \in SeqsUpTo({0, 7}, MaxPadLen),
        tail \in { <<>>, << 0, 0 >> } }

\* the largest packets the reader accepts
LargePeers ==
    { Peer(<< LineBanner20 >>,
           << Frame([i \in 1..(MAX_PACKET_LENGTH - 1 - n) |-> 1 + (i % 7)],
                    [i \in 1..n |-> 9]) >>,
           <<>>, 0) : n \in {0, 255} }

\* -- raw bytes in place of packets: any declared length, any padding length --

RawLengths == {0, 1, 2, 3, 4, MAX_PACKET_LENGTH - 1, MAX_PACKET_LENGTH,
               MAX_PACKET_LENGTH + 1, 65536, 2147483647}

RawPeers ==
    { Peer(<< LineBanner20 >>, <<>>, u32_to_be_bytes(n) \o body, fill) :
        n \in RawLengths,
        body \in { <<>>, << 0 >>, << 1 >>, << 2 >>, << 3 >>, << 4 >>, << 255 >>,
                   << 1, SSH_MSG_KEXINIT, 0 >> },
        fill \in {0, 2, MAX_PACKET_LENGTH, MAX_PACKET_LENGTH + 1} }

\* -- KEXINIT payloads cut short, overlong, or not text -----------------------

ShortLists == [i \in 1..NAME_LISTS |-> << << 97 + i >> >>]

ShortKexInit == encode_kex_init(Cookie, ShortLists, 1, 258)

\* a KEXINIT whose third name-list is the single byte 0xFF
NotTextKexInit ==
    encode_kex_init(Cookie, [ShortLists EXCEPT ![3] = << << 255 >> >>], 0, 0)

KexInitPayloads ==
    { SubSeq(ShortKexInit, 1, n) : n \in 1..Len(ShortKexInit) }
    \cup { SubSeq(PlainKexInit, 1, n) : n \in 1..Len(PlainKexInit) }
    \cup { ShortKexInit \o extra : extra \in { << 0 >>, << 1, 2, 3 >> } }
    \cup { NotTextKexInit,
           encode_kex_init(Cookie, [ShortLists EXCEPT ![3] = << << 195, 169 >> >>], 0, 0),
           encode_kex_init(Cookie, [i \in 1..NAME_LISTS |-> <<>>], 0, 0) }

KexInitPeers ==
    { Peer(<< LineBanner20 >>, << Frame(payload, Zeros(4)) >>, <<>>, 0) :
        payload \in KexInitPayloads }
    \cup
    { OfferPeer(<< LineBanner20 >>, <<>>, offer) :
        offer \in { Offer(Cookie, ShortLists, 1, 258),
                    Offer(Cookie, [i \in 1..NAME_LISTS |-> <<>>], 0, 0) } }

\* -- streams without a usable banner ----------------------------------------

BannerPeers ==
    { OfferPeer(lines, <<>>, PlainOffer) :
        lines \in { << LineBanner20, LineLate >>, << LineNotUtf8, LineBanner20 >>,
                    << LineComment, LineBanner199, LineLate >> } }
    \cup
    { Peer(lines, <<>>, <<>>, 0) :
        lines \in { <<>>, << LineComment >>, << LineComment, LineOpen >>,
                    << LineOpen >> } }

Peers ==
    EvaluationPeers \cup SkipPeers \cup PacketPeers \cup LargePeers
        \cup RawPeers \cup KexInitPeers \cup BannerPeers

\* ------------------------------------------------------------------------
\* Initial state: main calls scan (lines 282-287, 47-49)
\* ------------------------------------------------------------------------

NoResult ==
    [status |-> "", kind |-> "", msg |-> "", value |-> << <<>>, 0 >>, cursor |-> 0]

NoCall == [names |-> <<>>, payload |-> <<>>, offset |-> 0, result |-> NoResult]

Init ==
    /\ scan_mode \in Modes
    /\ peer \in Peers
    /\ conn = "none"
    /\ cursor = 0
    /\ sent = <<>>
    /\ pc = "connect"
    /\ remote_banner = <<>>
    /\ nread = 0
    /\ pkt = NoPacket
    /\ remote_kex_init = NoKexInit
    /\ report = NoReport
    /\ output = NoReport
    /\ err = NoError
    /\ nl = NoCall

\* ------------------------------------------------------------------------
\* scan_with_timeout, lines 57-67: connect out, or bind and accept
\* ------------------------------------------------------------------------

established(mode) == IF mode = "ServerScan" THEN "outbound" ELSE "accepted"

Connect ==
    /\ pc = "connect"
    /\ \E ok \in BOOLEAN :
          IF ok
          THEN /\ conn' = established(scan_mode)
               /\ pc' = "send_banner"
               /\ err' = err
          ELSE /\ conn' = conn
               /\ pc' = "error"
               /\ err' = [status |-> "Err", kind |-> "ConnectionRefused",
                          msg |-> "connect, bind or accept failed"]
    /\ UNCHANGED << nl, scan_mode, peer, cursor, sent, remote_banner, nread, pkt,
                    remote_kex_init, report, output >>

\* ------------------------------------------------------------------------
\* exchange_banners (lines 169-181)
\* ------------------------------------------------------------------------

SendBanner_mut ==
    /\ pc = "send_banner"
    /\ pc' = "read_line"
    /\ UNCHANGED << nl, sent, scan_mode, peer, conn, cursor, remote_banner, nread,
                    pkt, remote_kex_init, report, output, err >>

\* lines 170-172: write_all and flush of this tool's identification line
SendBanner ==
    /\ pc = "send_banner"
    /\ sent' = sent \o OWN_BANNER
    /\ pc' = "read_line"
    /\ UNCHANGED << nl, scan_mode, peer, conn, cursor, remote_banner, nread, pkt,
                    remote_kex_init, report, output, err >>

\* BufRead::read_line: the bytes up to and including the next '\n', or up to
\* the end of the stream
line_length(p, cur) ==
    LET d        == StreamData(p)
        \* the filler after d holds no '\n'
        newlines == { i \in (cur + 1)..Len(d) : d[i] = NEWLINE }
    IN  IF newlines = {} THEN StreamLen(p) - cur
        ELSE (CHOOSE i \in newlines : \A j \in newlines : i <= j) - cur

read_line(p, cur) == StreamBytes(p, cur, line_length(p, cur))

is_banner_line_mut(line) == starts_with(line, PREFIX_SSH_2_0)

\* line 177
is_banner_line(line) ==
    starts_with(line, PREFIX_SSH_1_99) \/ starts_with(line, PREFIX_SSH_2_0)

\* lines 174-180: one iteration of the loop
ReadLine ==
    /\ pc = "read_line"
    /\ LET line == read_line(peer, cursor) IN
       /\ cursor' = cursor + Len(line)
       /\ IF ~from_utf8_ok(line)
          THEN /\ pc' = "error"
               /\ err' = [status |-> "Err", kind |-> "InvalidData",
                          msg |-> "stream did not contain valid UTF-8"]
               /\ remote_banner' = remote_banner
          ELSE IF is_banner_line(line)
          THEN /\ pc' = "read_packet"
               /\ remote_banner' = trim(line)
               /\ err' = err
          ELSE /\ pc' = pc
               /\ remote_banner' = remote_banner
               /\ err' = err
    /\ UNCHANGED << nl, scan_mode, peer, conn, sent, nread, pkt, remote_kex_init,
                    report, output >>

\* ------------------------------------------------------------------------
\* receive_remote_kex_init (lines 273-280)
\* ------------------------------------------------------------------------

\* line 275: let pkt = read_single_packet(conn)?
ReadPacket ==
    /\ pc = "read_packet"
    /\ LET r == read_single_packet(peer, cursor) IN
       /\ cursor' = r.cursor
       /\ IF r.status = "Ok"
          THEN /\ pkt' = r.value
               /\ nread' = nread + 1
               /\ pc' = "inspect"
               /\ err' = err
          ELSE /\ pkt' = pkt
               /\ nread' = nread
               /\ pc' = IF r.status = "Err" THEN "error" ELSE "panic"
               /\ err' = ErrorOf(r)
    /\ UNCHANGED << nl, scan_mode, peer, conn, sent, remote_banner, remote_kex_init,
                    report, output >>

InspectPacket_mut ==
    /\ pc = "inspect"
    /\ LET r == parse_kex_init(pkt.payload) IN
       IF r.status = "Ok"
       THEN /\ pc' = "evaluate"
            /\ remote_kex_init' = r.value
            /\ err' = err
       ELSE /\ pc' = IF r.status = "Err" THEN "error" ELSE "panic"
            /\ remote_kex_init' = remote_kex_init
            /\ err' = ErrorOf(r)
    /\ UNCHANGED << nl, scan_mode, peer, conn, cursor, sent, remote_banner, nread, pkt,
                    report, output >>

\* lines 276-278: if pkt.payload[0] == 20 { return parse_kex_init(&pkt) }
InspectPacket ==
    /\ pc = "inspect"
    /\ IF Len(pkt.payload) = 0
       THEN /\ pc' = "panic"
            /\ err' = [status |-> "Panic", kind |-> "panic",
                       msg |-> "index out of bounds: the len is 0 but the index is 0"]
            /\ remote_kex_init' = remote_kex_init
       ELSE IF pkt.payload[1] = SSH_MSG_KEXINIT
       THEN LET r == parse_kex_init(pkt.payload) IN
            IF r.status = "Ok"
            THEN /\ pc' = "evaluate"
                 /\ remote_kex_init' = r.value
                 /\ err' = err
            ELSE /\ pc' = IF r.status = "Err" THEN "error" ELSE "panic"
                 /\ remote_kex_init' = remote_kex_init
                 /\ err' = ErrorOf(r)
       ELSE /\ pc' = "read_packet"
            /\ remote_kex_init' = remote_kex_init
            /\ err' = err
    /\ UNCHANGED << nl, scan_mode, peer, conn, cursor, sent, remote_banner, nread, pkt,
                    report, output >>

\* ------------------------------------------------------------------------
\* scan_with_timeout, lines 73-111: the flags and the Report
\* ------------------------------------------------------------------------

Evaluate ==
    /\ pc = "evaluate"
    /\ report' = make_report(scan_mode, remote_banner, remote_kex_init)
    /\ pc' = "serialize"
    /\ UNCHANGED << nl, scan_mode, peer, conn, cursor, sent, remote_banner, nread, pkt,
                    remote_kex_init, output, err >>

\* ------------------------------------------------------------------------
\* main, line 289: serde_json::to_string_pretty(&report)
\* ------------------------------------------------------------------------

Serialize ==
    /\ pc = "serialize"
    /\ output' = serialize(report)
    /\ pc' = "done"
    /\ UNCHANGED << nl, scan_mode, peer, conn, cursor, sent, remote_banner, nread, pkt,
                    remote_kex_init, report, err >>

Next ==
    \/ Connect
    \/ SendBanner
    \/ ReadLine
    \/ ReadPacket
    \/ InspectPacket
    \/ Evaluate
    \/ Serialize

Spec == Init /\ [][Next]_vars

\* ------------------------------------------------------------------------
\* parse_name_list on its own, lines 183-212: one call on a payload that
\* holds an encoded name-list at some offset
\* ------------------------------------------------------------------------

\* longest token and longest list of the enumerated name-lists
MaxTokenLen == 1
MaxNames == 3

\* tokens over "a" and "b", the empty token included
Tokens == SeqsUpTo({97, 98}, MaxTokenLen)

\* << "a", "b", "c" >>
NamesABC == << <<97>>, <<98>>, <<99>> >>

\* the lists a peer encodes: any list of tokens, the empty list, and lists of
\* algorithm names
NameLists ==
    SeqsUpTo(Tokens, MaxNames) \cup { NamesABC, Decoys, << CHACHA20_POLY1305 >> }

\* the bytes of the payload before the offset and after the field
BytesBefore == { <<>>, << COMMA >>, << 0, 0, 0, 9, 97 >> }
BytesAfter == { <<>>, << 0 >>, << COMMA, 97 >> }

Call(names, before, after) ==
    [names   |-> names,
     payload |-> before \o encode_name_list(names) \o after,
     offset  |-> Len(before),
     result  |-> NoResult]

Calls == { Call(names, before, after) :
             names \in NameLists, before \in BytesBefore, after \in BytesAfter }

InitNameList ==
    /\ scan_mode = "ServerScan"
    /\ peer = Peer(<<>>, <<>>, <<>>, 0)
    /\ conn = "none"
    /\ cursor = 0
    /\ sent = <<>>
    /\ pc = "parse_name_list"
    /\ remote_banner = <<>>
    /\ nread = 0
    /\ pkt = NoPacket
    /\ remote_kex_init = NoKexInit
    /\ report = NoReport
    /\ output = NoReport
    /\ err = NoError
    /\ nl \in Calls

ParseNameList ==
    /\ pc = "parse_name_list"
    /\ nl.result = NoResult
    /\ nl' = [nl EXCEPT !.result = parse_name_list(nl.payload, nl.offset)]
    /\ UNCHANGED << scan_mode, peer, conn, cursor, sent, pc, remote_banner,
                    nread, pkt, remote_kex_init, report, output, err >>

NextNameList == ParseNameList

SpecNameList == InitNameList /\ [][NextNameList]_vars

\* The scan as a running process: a thread that is not blocked takes its
\* next step.  An iteration of a loop that changes nothing is not a step.
FairSpec == Spec /\ WF_vars(Next)

\* ------------------------------------------------------------------------
\* Properties
\* ------------------------------------------------------------------------

\* the scan returned a Report
Reported == pc \in {"serialize", "done"}

\* name is an element of list
Advertises(list, name) == \E i \in DOMAIN list : list[i] = name

\* some element of list ends in suffix
SomeEndsIn(list, suffix) ==
    \E i \in DOMAIN list :
        /\ Len(list[i]) >= Len(suffix)
        /\ \A j \in 1..Len(suffix) :
              list[i][Len(list[i]) - Len(suffix) + j] = suffix[j]

\* C1: the vulnerable value main emits equals (supports_chacha20 OR
\* supports_cbc_etm) AND NOT supports_strict_kex of the same emitted record.
C1_VulnerableIsDerived ==
    pc = "done" =>
        output.vulnerable =
            ((output.supports_chacha20 \/ output.supports_cbc_etm)
                /\ ~output.supports_strict_kex)

\* a vulnerable peer was reported: the emitted value is TRUE although the
\* stored field of the Report is FALSE
C1_Witness ==
    /\ pc = "done"
    /\ output.supports_chacha20
    /\ ~output.supports_strict_kex
    /\ output.vulnerable
    /\ ~report.vulnerable

\* C2: scanning a server, supports_strict_kex is TRUE exactly when the peer's
\* kex list holds "kex-strict-s-v00@openssh.com"; scanning a client, exactly
\* when it holds that name or "kex-strict-c-v00@openssh.com".
C2_StrictKexByRole ==
    Reported =>
        LET kex == remote_kex_init.lists[1] IN
        report.supports_strict_kex =
            IF scan_mode = "ServerScan"
            THEN Advertises(kex, KEX_STRICT_INDICATOR_SERVER)
            ELSE \/ Advertises(kex, KEX_STRICT_INDICATOR_SERVER)
                 \/ Advertises(kex, KEX_STRICT_INDICATOR_CLIENT)

\* a scanned server advertising only the client-side indicator
C2_Witness ==
    /\ pc = "done"
    /\ scan_mode = "ServerScan"
    /\ Advertises(remote_kex_init.lists[1], KEX_STRICT_INDICATOR_CLIENT)
    /\ ~Advertises(remote_kex_init.lists[1], KEX_STRICT_INDICATOR_SERVER)
    /\ ~output.supports_strict_kex

\* C3: supports_cbc_etm is TRUE exactly when one direction has both an
\* encryption name ending in "-cbc" and a MAC name ending in
\* "-etm@openssh.com".
C3_CbcEtmSameDirection ==
    Reported =>
        LET l == remote_kex_init.lists IN
        report.supports_cbc_etm =
            \/ SomeEndsIn(l[3], CBC_SUFFIX) /\ SomeEndsIn(l[5], ETM_SUFFIX)
            \/ SomeEndsIn(l[4], CBC_SUFFIX) /\ SomeEndsIn(l[6], ETM_SUFFIX)

\* a CBC cipher only client-to-server, an ETM MAC only server-to-client
C3_Witness ==
    /\ pc = "done"
    /\ SomeEndsIn(remote_kex_init.lists[3], CBC_SUFFIX)
    /\ ~SomeEndsIn(remote_kex_init.lists[5], ETM_SUFFIX)
    /\ ~SomeEndsIn(remote_kex_init.lists[4], CBC_SUFFIX)
    /\ SomeEndsIn(remote_kex_init.lists[6], ETM_SUFFIX)
    /\ ~output.supports_cbc_etm

\* C4: supports_chacha20 is TRUE exactly when "chacha20-poly1305@openssh.com"
\* is an element of one of the two encryption lists.
C4_ChaChaExactToken ==
    Reported =>
        report.supports_chacha20 =
            \/ Advertises(remote_kex_init.lists[3], CHACHA20_POLY1305)
            \/ Advertises(remote_kex_init.lists[4], CHACHA20_POLY1305)

\* the name is in the host-key and both MAC lists, a longer and a shorter
\* name are in both encryption lists, and the flag is FALSE
C4_Witness ==
    /\ pc = "done"
    /\ Advertises(remote_kex_init.lists[2], CHACHA20_POLY1305)
    /\ Advertises(remote_kex_init.lists[5], CHACHA20_POLY1305)
    /\ Advertises(remote_kex_init.lists[6], CHACHA20_POLY1305)
    /\ Advertises(remote_kex_init.lists[3], TokChachaLonger)
    /\ Advertises(remote_kex_init.lists[4], TokChachaShorter)
    /\ ~output.supports_chacha20

\* C5, as claimed: is_server is TRUE exactly when the tool bound and accepted
\* the connection.
C5_IsServerWhenListening ==
    Reported => (report.is_server = (conn = "accepted"))

\* C5, amended: is_server is TRUE exactly when the tool opened the outbound
\* connection (it scanned a server), FALSE when it bound and accepted.
C5_IsServerWhenConnecting ==
    Reported => (report.is_server = (conn = "outbound"))

C5_Witness ==
    /\ pc = "done"
    /\ conn = "outbound"
    /\ output.is_server

\* the four bytes at the cursor, read as a big-endian length
DeclaredLength ==
    ((StreamAt(peer, cursor) * 256 + StreamAt(peer, cursor + 1)) * 256
        + StreamAt(peer, cursor + 2)) * 256 + StreamAt(peer, cursor + 3)

\* read_single_packet is about to run and the length field is on the stream
ReadsLength == pc = "read_packet" /\ cursor + 4 <= StreamLen(peer)

\* C6: a declared length above 35000 ends the scan with an error after the
\* four length bytes alone were consumed, however many bytes follow; a
\* declared length of at most 35000 is not rejected as too large.
C6_OversizedRejected ==
    [][ ReadsLength =>
          IF DeclaredLength > 35000
          THEN /\ pc' = "error"
               /\ err'.kind = "InvalidData"
               /\ cursor' = cursor + 4
               /\ nread' = nread
          ELSE err'.kind # "InvalidData" ]_vars

\* an oversized packet was rejected although its whole body was on the stream
C6_Witness ==
    /\ pc = "error"
    /\ err.kind = "InvalidData"
    /\ nread = 0
    /\ cursor = Len(Flatten(peer.lines)) + 4
    /\ StreamLen(peer) - cursor > 35000

\* the body of the declared length is on the stream
ReadsBody ==
    /\ ReadsLength
    /\ DeclaredLength <= 35000
    /\ cursor + 4 + DeclaredLength <= StreamLen(peer)

\* C7: a body with packet_length = 0, or with padding_length >= packet_length,
\* makes read_single_packet return an error value; it never faults.
C7_MalformedIsError ==
    [][ (ReadsBody /\ (DeclaredLength = 0
                         \/ StreamAt(peer, cursor + 4) >= DeclaredLength))
          => pc' = "error" ]_vars

\* The peer's lines end with its banner and hold no banner before it, so the
\* packets start where the banner step stopped reading.
AlignedPeer ==
    /\ peer.lines # <<>>
    /\ \A i \in DOMAIN peer.lines :
          /\ peer.lines[i][Len(peer.lines[i])] = NEWLINE
          /\ \A j \in 1..(Len(peer.lines[i]) - 1) : peer.lines[i][j] # NEWLINE
          /\ is_banner_line(peer.lines[i]) <=> i = Len(peer.lines)

\* C8: the k-th packet read from a well-formed stream has the payload, the
\* padding length and the padding the peer encoded as its k-th packet, and a
\* payload of packet_length - 1 - padding_length bytes; the reader fails only
\* after the well-formed packets.
C8_PacketRoundTrip ==
    AlignedPeer =>
        /\ (pc = "inspect" /\ nread <= Len(peer.frames)) =>
              LET f == peer.frames[nread] IN
              /\ pkt.payload = f.payload
              /\ pkt.padding_length = Len(f.padding)
              /\ pkt.padding = f.padding
              /\ pkt.packet_length = 1 + Len(f.payload) + Len(f.padding)
              /\ Len(pkt.payload) = pkt.packet_length - 1 - pkt.padding_length
        /\ (pc = "read_packet" /\ nread < Len(peer.frames)) =>
              read_single_packet(peer, cursor).status = "Ok"

\* the largest packet, with the longest padding, was read back
C8_Witness ==
    /\ pc = "inspect"
    /\ AlignedPeer
    /\ nread = 1
    /\ Len(peer.frames) = 1
    /\ Len(peer.frames[1].padding) = 255
    /\ pkt.packet_length = 35000
    /\ pkt.payload = peer.frames[1].payload
    /\ pkt.padding = peer.frames[1].padding

\* bytes on the wire of the first k packets of the peer
RECURSIVE WireSize(_, _)
WireSize(frames, k) ==
    IF k = 0 THEN 0
    ELSE WireSize(frames, k - 1)
            + 4 + 1 + Len(frames[k].payload) + Len(frames[k].padding)

\* C9: a successful read_single_packet moves the cursor by 4 + the declared
\* length, and after k successful reads of a well-formed stream the cursor is
\* at the first byte of packet k + 1.
C9_CursorAdvance ==
    /\ [][ (pc = "read_packet" /\ pc' = "inspect") =>
              /\ cursor' = cursor + 4 + DeclaredLength
              /\ pkt'.packet_length = DeclaredLength ]_vars
    /\ [] ( (AlignedPeer /\ pc \in {"read_packet", "inspect"}
                 /\ nread <= Len(peer.frames)) =>
              cursor = Len(Flatten(peer.lines)) + WireSize(peer.frames, nread) )

\* two packets were skipped and the cursor is at the third
C9_Witness ==
    /\ pc = "read_packet"
    /\ AlignedPeer
    /\ nread = 2
    /\ Len(peer.frames) = 3
    /\ cursor = Len(Flatten(peer.lines)) + WireSize(peer.frames, 2)

\* bytes of a name-list on the wire: length field, names, separators
RECURSIVE NamesSize(_)
NamesSize(list) ==
    IF list = <<>> THEN 0 ELSE Len(Head(list)) + NamesSize(Tail(list))

ListSpan(list) == 4 + NamesSize(list) + (Len(list) - 1)

RECURSIVE ListsSpan(_)
ListsSpan(lists) ==
    IF lists = <<>> THEN 0 ELSE ListSpan(Head(lists)) + ListsSpan(Tail(lists))

\* C10: a decoded KEXINIT accounts for every byte of its payload: type,
\* cookie, ten name-lists, flag and reserved word add up to payload.len().
C10_ConsumesWholePayload ==
    pc \in {"evaluate", "serialize", "done"} =>
        1 + COOKIE_LEN + ListsSpan(remote_kex_init.lists) + 1 + 4
            = Len(pkt.payload)

\* payload is the first bytes of the KEXINIT encoded from cookie and lists,
\* and ends inside the name-lists: after the cookie and before the last byte
\* of the tenth name-list
CutOf(payload, lists) ==
    /\ Len(payload) >= 1 + COOKIE_LEN
    /\ Len(payload) < 1 + COOKIE_LEN + Len(encode_name_lists(lists))
    /\ payload = SubSeq(encode_kex_init(Cookie, lists, 0, 0), 1, Len(payload))

CutInsideNameLists(payload) ==
    CutOf(payload, ShortLists) \/ CutOf(payload, PlainLists)

\* C11: a KEXINIT payload cut short inside a name-list ends the scan with an
\* UnexpectedEof error value, without a fault and without a decoded record.
C11_TruncatedNameListIsEof ==
    [][ (pc = "inspect" /\ CutInsideNameLists(pkt.payload)) =>
          /\ pc' = "error"
          /\ err'.kind = "UnexpectedEof"
          /\ remote_kex_init' = NoKexInit ]_vars

\* the payload stops after the length field of a name-list whose name is
\* missing
C11_Witness ==
    /\ pc = "error"
    /\ nread = 1
    /\ CutInsideNameLists(pkt.payload)
    /\ err.kind = "UnexpectedEof"
    /\ err.msg = "not enough bytes to read name list"

\* C12: a name-list body that is not valid text makes parse_name_list return
\* an error value, and the scan ends with that error.
C12_NotTextIsError ==
    [][ (pc = "inspect" /\ pkt.payload = NotTextKexInit) => pc' = "error" ]_vars

\* payload is the first bytes of the KEXINIT encoded from cookie and lists,
\* and ends inside a fixed-width field: in the cookie, or in the flag byte and
\* reserved word after the tenth name-list
CutInFixedOf(payload, lists) ==
    /\ Len(payload) >= 1
    /\ \/ Len(payload) < 1 + COOKIE_LEN
       \/ /\ Len(payload) >= 1 + COOKIE_LEN + Len(encode_name_lists(lists))
          /\ Len(payload) < 1 + COOKIE_LEN + Len(encode_name_lists(lists)) + 5
    /\ payload = SubSeq(encode_kex_init(Cookie, lists, 0, 0), 1, Len(payload))

CutInsideFixedField(payload) ==
    CutInFixedOf(payload, ShortLists) \/ CutInFixedOf(payload, PlainLists)

\* C18: a KEXINIT payload cut short inside the cookie or inside the flag byte
\* and reserved word makes parse_kex_init return an error value and no
\* record, without a fault.
C18_TruncatedFixedFieldIsError ==
    [][ (pc = "inspect" /\ CutInsideFixedField(pkt.payload)) =>
          (pc' = "error" /\ remote_kex_init' = NoKexInit) ]_vars

\* C20: a packet with an empty payload is discarded by the skip-loop without
\* a fault: the loop reads the next packet.
C20_EmptyPayloadIsSkipped ==
    [][ (pc = "inspect" /\ Len(pkt.payload) = 0) => pc' = "read_packet" ]_vars

\* the call of parse_name_list has returned
Parsed == nl.result # NoResult

\* the length the name-list at the call's offset declares
Declared ==
    u32_from_be_bytes(SubSeq(nl.payload, nl.offset + 1, nl.offset + 4))

\* C13: decoding an encoded non-empty list of comma-free tokens gives the
\* same tokens in the same order and consumes 4 + L bytes, L the tokens'
\* bytes plus one separator between neighbours, whatever bytes stand before
\* the offset and after the field.
C13_NameListRoundTrip ==
    (Parsed /\ nl.names # <<>>) =>
        /\ nl.result.status = "Ok"
        /\ nl.result.value[1] = nl.names
        /\ nl.result.value[2] = ListSpan(nl.names)

C13_Witness ==
    /\ Parsed
    /\ nl.names = NamesABC
    /\ nl.offset = 5
    /\ Len(nl.payload) = 5 + 9 + 2
    /\ nl.result.value = << NamesABC, 4 + 5 >>

\* C14: a name-list whose declared length is 0 decodes as a list of exactly
\* one token, the empty text, and consumes 4 bytes.
C14_EmptyFieldIsOneEmptyToken ==
    (Parsed /\ Declared = 0) =>
        /\ nl.result.status = "Ok"
        /\ nl.result.value = << << <<>> >>, 4 >>

C14_Witness ==
    /\ Parsed
    /\ nl.names = <<>>
    /\ Declared = 0
    /\ nl.offset = 1
    /\ Len(nl.payload) > nl.offset + 4
    /\ nl.result.value = << << <<>> >>, 4 >>

\* line begins with "SSH-2.0" or with "SSH-1.99"
HasSshPrefix(line) ==
    \/ Len(line) >= 7 /\ SubSeq(line, 1, 7) = <<83, 83, 72, 45, 50, 46, 48>>
    \/ Len(line) >= 8 /\ SubSeq(line, 1, 8) = <<83, 83, 72, 45, 49, 46, 57, 57>>

\* line without its trailing CR, LF, blanks and tabs
Stripped(line) ==
    LET ends == { i \in 0..Len(line) :
                    /\ i > 0 => line[i] \notin {9, 10, 11, 12, 13, 32}
                    /\ \A j \in (i + 1)..Len(line) :
                          line[j] \in {9, 10, 11, 12, 13, 32} }
    IN  SubSeq(line, 1, CHOOSE i \in ends : TRUE)

\* the k-th line the peer sends is its first identification line
FirstBannerAt(k) ==
    /\ k \in 1..Len(peer.lines)
    /\ HasSshPrefix(peer.lines[k])
    /\ \A j \in 1..(k - 1) : ~HasSshPrefix(peer.lines[j])

\* C15: exchange_banners returns the first line that begins with "SSH-2.0"
\* or "SSH-1.99", without its trailing CR-LF and whitespace; the lines before
\* it are never returned, and when the first packet is about to be read
\* nothing after that line has been consumed.
C15_FirstBannerLineReturned ==
    /\ remote_banner # <<>> =>
          \E k \in 1..Len(peer.lines) :
              FirstBannerAt(k) /\ remote_banner = Stripped(peer.lines[k])
    /\ (pc = "read_packet" /\ nread = 0) =>
          \E k \in 1..Len(peer.lines) :
              /\ FirstBannerAt(k)
              /\ remote_banner = Stripped(peer.lines[k])
              /\ cursor = Len(Flatten(SubSeq(peer.lines, 1, k)))

C15_Witness ==
    /\ peer.lines = << LineComment, LineBanner199, LineLate >>
    /\ pc = "read_packet"
    /\ nread = 0
    /\ remote_banner = <<83, 83, 72, 45, 49, 46, 57, 57, 45, 120>>
    /\ cursor = 4 + 12

\* "SSH-2.0-TerrapinVulnerabilityScanner\r\n"
IdentificationLine ==
    <<83, 83, 72, 45, 50, 46, 48, 45, 84, 101, 114, 114, 97, 112, 105, 110,
      86, 117, 108, 110, 101, 114, 97, 98, 105, 108, 105, 116, 121, 83, 99,
      97, 110, 110, 101, 114, 13, 10>>

\* the scan has returned: with a report, an error or a fault
Ended == pc \in {"done", "error", "panic"}

\* C16: the steps of a scan happen in a fixed order and at most once.  A
\* peer byte is consumed only after this tool's identification line is
\* written, and the line is written once; a packet is read only after the
\* peer's banner is captured, and the banner is captured once; the report is
\* built only from a decoded KEXINIT of type 20, once; and after the scan
\* has ended, with a report or with a failure, nothing more happens.
C16_StepsInOrder ==
    [][ /\ cursor' # cursor => sent = IdentificationLine
        /\ sent' # sent => (sent = <<>> /\ sent' = IdentificationLine /\ cursor = 0)
        /\ nread' # nread => (HasSshPrefix(remote_banner) /\ remote_banner' = remote_banner)
        /\ remote_banner' # remote_banner => (remote_banner = <<>> /\ nread = 0)
        /\ remote_kex_init' # remote_kex_init =>
              (remote_kex_init = NoKexInit /\ nread > 0 /\ report = NoReport)
        /\ report' # report =>
              /\ report = NoReport
              /\ remote_kex_init # NoKexInit
              /\ remote_kex_init.msg_type = 20
              /\ remote_kex_init' = remote_kex_init
        /\ Ended => UNCHANGED vars
      ]_vars

C16_Witness ==
    /\ pc = "done"
    /\ sent = IdentificationLine
    /\ Len(peer.lines) = 3
    /\ nread = 3
    /\ HasSshPrefix(output.banner)
    /\ remote_kex_init.msg_type = 20

\* the peer sends its lines, the last of them its banner, then packets whose
\* payload begins with a byte other than 20, then the KEXINIT of its offer
SkipsThenOffers ==
    /\ peer.offer # NoOffer
    /\ peer.lines \in LineChoices
    /\ \A i \in 1..(Len(peer.frames) - 1) :
          /\ peer.frames[i].payload # <<>>
          /\ peer.frames[i].payload[1] # 20

\* the lists as str::split gives them: an empty name-list is one empty token
AsDecoded(lists) ==
    [i \in DOMAIN lists |-> IF lists[i] = <<>> THEN << <<>> >> ELSE lists[i]]

\* the three flags of the peer's offer, read off the lists it encoded
OfferedChaCha20 ==
    \/ Advertises(peer.offer.lists[3], CHACHA20_POLY1305)
    \/ Advertises(peer.offer.lists[4], CHACHA20_POLY1305)

OfferedCbcEtm ==
    \/ /\ SomeEndsIn(peer.offer.lists[3], CBC_SUFFIX)
       /\ SomeEndsIn(peer.offer.lists[5], ETM_SUFFIX)
    \/ /\ SomeEndsIn(peer.offer.lists[4], CBC_SUFFIX)
       /\ SomeEndsIn(peer.offer.lists[6], ETM_SUFFIX)

OfferedStrictKex ==
    \/ Advertises(peer.offer.lists[1], KEX_STRICT_INDICATOR_SERVER)
    \/ /\ scan_mode = "ClientScan"
       /\ Advertises(peer.offer.lists[1], KEX_STRICT_INDICATOR_CLIENT)

\* C17: when the peer sends a banner line, then n packets whose payload
\* begins with a byte other than 20, then a KEXINIT, the scan does not fail
\* after connecting and never waits at the end of the stream; it reads n + 1 packets,
\* decodes the KEXINIT as the peer encoded it, and reports the peer's line
\* and the three flags of the offered lists.  Every decoded record of any
\* scan has msg_type 20.
C17_SkipsToFirstKexInit ==
    /\ remote_kex_init # NoKexInit => remote_kex_init.msg_type = 20
    /\ SkipsThenOffers =>
          /\ pc # "panic"
          /\ pc = "error" => err.kind = "ConnectionRefused"
          /\ pc \in {"read_line", "read_packet"} => cursor < StreamLen(peer)
          /\ nread <= Len(peer.frames)
          /\ remote_kex_init # NoKexInit =>
                /\ nread = Len(peer.frames)
                /\ remote_kex_init.cookie = peer.offer.cookie
                /\ remote_kex_init.lists = AsDecoded(peer.offer.lists)
                /\ remote_kex_init.first_kex_packet_follows = (peer.offer.follows # 0)
                /\ remote_kex_init.flags = peer.offer.flags
          /\ pc = "done" =>
                /\ remote_kex_init # NoKexInit
                /\ output.banner = Stripped(peer.lines[Len(peer.lines)])
                /\ output.supports_chacha20 = OfferedChaCha20
                /\ output.supports_cbc_etm = OfferedCbcEtm
                /\ output.supports_strict_kex = OfferedStrictKex

C17_Witness ==
    /\ SkipsThenOffers
    /\ peer.lines = << LineBanner20 >>
    /\ peer.offer.lists[1] = << TokCurve >>
    /\ peer.offer.lists[3] = << CHACHA20_POLY1305 >>
    /\ Len(peer.frames) = 3
    /\ pc = "done"
    /\ nread = 3
    /\ output.banner = <<83, 83, 72, 45, 50, 46, 48, 45, 79, 112, 101, 110, 83, 83, 72, 95, 57, 46, 48>>
    /\ output.supports_chacha20
    /\ ~output.supports_strict_kex
    /\ output.vulnerable

\* C19: every scan ends, with a report or an error, also when the peer's
\* stream ends before a line that begins with "SSH-2.0" or "SSH-1.99".
C19_ScanTerminates == <>Ended

====
